---- MODULE Spec2Model ----
(***************************************************************************)
(* A model of the addressing and memory-access core of the 8086 emulator:  *)
(* BusInterfaceUnit (src/src/cpu/biu.rs), AddressBus (src/src/cpu/bus.rs), *)
(* Memory (src/src/cpu/memory.rs), Register (src/src/cpu/registers.rs) and *)
(* Flags (src/src/cpu/flags.rs).                                           *)
(*                                                                         *)
(* Every method is one action.  A call is recorded in op (the method),     *)
(* args (its arguments) and ret (what it returned), so that what a method  *)
(* returns can be stated as a property of the state after the call.        *)
(***************************************************************************)
EXTENDS Integers, Sequences, FiniteSets

VARIABLES
    es, cs, ss, ds, ip,     \* BusInterfaceUnit: segment registers, instruction pointer
    instruction_queue,      \* BusInterfaceUnit: Vec<u8>, index 0 first
    address,                \* AddressBus: the latched address (u32)
    data,                   \* Memory: Vec<u8>, as [len, byte]: its length and its
                            \*   bytes at the tracked indices below len
    kind,                   \* which object the memory belongs to: "AddressBus" (the
                            \*   bus owns it) or "Memory" (a Memory used on its own)
    panicked,               \* a Rust panic (index out of bounds) ended the program
    written,                \* history: for each index a write has stored to, the
                            \*   value of the last such write
    latched,                \* history: the argument of the last set_address call
                            \*   on the bus, 0 while there was none
    x,                      \* Register: the 16-bit value
    low_written,            \* history: the low byte and the high byte most
    high_written,           \*   recently written to the Register
    flags,                  \* Flags: the nine booleans
    op, args, ret,          \* the last call: method, arguments, returned value
    supplied,               \* history: the queue the constructor was given
    pushed, popped          \* history: every byte push_instruction was given so
                            \*   far, every byte a pop has returned so far

biu  == <<es, cs, ss, ds, ip, instruction_queue>>
bus  == <<address, data, kind, panicked, written, latched>>
reg  == <<x, low_written, high_written>>
call == <<op, args, ret>>
hist == <<supplied, pushed, popped>>
vars == <<es, cs, ss, ds, ip, instruction_queue, address, data, kind, panicked,
          written, latched, x, low_written, high_written, flags, op, args, ret, supplied, pushed, popped>>

----------------------------------------------------------------------------
(* Machine integers.                                                       *)

TwoPow8  == 256
TwoPow16 == 65536

\* u32 arithmetic.  TLC's integers are 32-bit signed, so a u32
\* is modelled by its value, and the operators below are exact only while the
\* result stays below 2^31.  Every u32 the code computes is a u16 shifted
\* left by 4 plus a u16, at most 0x10FFEF, so no bit is lost and no addition
\* overflows, in the code as in the model.

\* `v as u32` of a u16: zero extension, the same value.
AsU32(v) == v

\* u32 `a << n`.
Shl32(a, n) == a * (2 ^ n)

\* u32 `a + b`.
Add32(a, b) == a + b

\* Bitwise operators on w-bit values, bit by bit.
RECURSIVE BitAnd(_, _, _)
BitAnd(a, b, w) ==
    IF w = 0 THEN 0
    ELSE (IF a % 2 = 1 /\ b % 2 = 1 THEN 1 ELSE 0)
         + 2 * BitAnd(a \div 2, b \div 2, w - 1)

RECURSIVE BitOr(_, _, _)
BitOr(a, b, w) ==
    IF w = 0 THEN 0
    ELSE (IF a % 2 = 1 \/ b % 2 = 1 THEN 1 ELSE 0)
         + 2 * BitOr(a \div 2, b \div 2, w - 1)

\* u16 `a << n` and `a >> n`.
Shl16(a, n) == (a * (2 ^ n)) % TwoPow16
Shr16(a, n) == a \div (2 ^ n)

\* Option<T>.
None    == <<"None">>
Some(v) == <<"Some", v>>
unwrap_or(o, default) == IF o = None THEN default ELSE o[2]

\* The unit value returned by a method without a result.
Unit == <<>>

----------------------------------------------------------------------------
(* Inputs.                                                                 *)

\* 16-bit segment values: 0x0000, 0x1005, 0xFFFF.
Segments == {0, 4101, 65535}
\* 16-bit offsets: 0x0000, 0x5555, 0xFFFF.
Offsets  == {0, 21845, 65535}
\* Segment overrides: none, 0x1000, 0xFFFF.
Overrides == {None, Some(4096), Some(65535)}
\* Instruction bytes: 0x11, 0x22, 0x33.
Bytes == {17, 34, 51}

\* Bytes written to memory: 0x00, 0xAB, 0xFF.
Values == {0, 171, 255}
\* Addresses latched on the bus or passed to Memory: 0x00000, 0x00001, 0xFFFFF
\* inside the 1 MiB space; 0x100000, 0x100001, 0x10FFEF (the largest
\* segment:offset sum) and 0x7FFFFFFF past it.  The model tracks the bytes of
\* a Vec at these indices (those below its length).
Addresses == {0, 1, 1048575, 1048576, 1048577, 1114095, 2147483647}

----------------------------------------------------------------------------
(* Memory (src/src/cpu/memory.rs).                                         *)

MEMORY_SIZE == 1048576

\* A Vec<u8> of n bytes, every byte b: `vec![b; n]`.
VecOf(b, n) == [len |-> n, byte |-> [a \in {t \in Addresses : t < n} |-> b]]

\* Memory::new(): `vec![0u8; MEMORY_SIZE]`.
Memory_new == VecOf(0, MEMORY_SIZE)

\* #[derive(Default)] on Memory: `data: Vec::default()`, the empty Vec.
Memory_default == VecOf(0, 0)

\* An index reduced to the 1 MiB space before it is used.
Index_wrapped(a) == a % 1048576

\* `address as usize`: the same value (usize is at least as wide as u32 on
\* the 32- and 64-bit targets the crate builds for).
Index(a) == a

\* The bounds check of `self.data[address as usize]`: the index is below the
\* Vec's length (else the indexing panics).
InBounds(d, a) == Index(a) < d.len

\* Memory::read, for an index in bounds.
Memory_read(d, a) == d.byte[Index(a)]

\* Memory::write, for an index in bounds.
Memory_write(d, a, value) == [d EXCEPT !.byte[Index(a)] = value]

\* What a call that panicked returned: nothing.
Panic == <<"panic">>

----------------------------------------------------------------------------
(* BusInterfaceUnit (src/src/cpu/biu.rs): the address computations.        *)

\* A fetch address wrapped to 20 bits, as the 8086's address pins would.
get_fetch_address_wrapped == (Add32(Shl32(AsU32(cs), 4), AsU32(ip))) % 1048576

get_fetch_address == Add32(Shl32(AsU32(cs), 4), AsU32(ip))

get_stack_address(sp_offset) == Add32(Shl32(AsU32(ss), 4), AsU32(sp_offset))

get_string_source_address(si_offset, alt_base) ==
    LET base == unwrap_or(alt_base, ds)
    IN  Add32(Shl32(AsU32(base), 4), AsU32(si_offset))

get_string_destination_address(di_offset) ==
    Add32(Shl32(AsU32(es), 4), AsU32(di_offset))

\* A data address that adds the override to ds instead of replacing it.
get_data_address_combined(eu_offset, alt_base) ==
    LET base == IF alt_base = None THEN ds ELSE (ds + alt_base[2]) % TwoPow16
    IN  Add32(Shl32(AsU32(base), 4), AsU32(eu_offset))

get_data_address(eu_offset, alt_base) ==
    LET base == unwrap_or(alt_base, ds)
    IN  Add32(Shl32(AsU32(base), 4), AsU32(eu_offset))

get_bp_address(eu_bp_offset, alt_base) ==
    LET base == unwrap_or(alt_base, ss)
    IN  Add32(Shl32(AsU32(base), 4), AsU32(eu_bp_offset))

\* The getters.
get_extra_segment_address == es
get_code_segment_address  == cs
get_stack_segment_address == ss
get_data_segment_address  == ds
get_instruction_pointer   == ip

----------------------------------------------------------------------------
(* AddressBus (src/src/cpu/bus.rs) and Flags, Register: construction.      *)

\* AddressBus::new(): address 0 and Memory::new().
AddressBus_new == [address |-> 0, memory |-> Memory_new]

\* #[derive(Default)] on AddressBus: u32::default() and Memory::default().
AddressBus_default == [address |-> 0, memory |-> Memory_default]

\* Flags::new: each field from the argument of the same name.
Flags_new(carry, parity, auxiliary_carry, zero, sign, overflow, interrupt_enable, direction, trap) ==
    [carry |-> carry, parity |-> parity, auxiliary_carry |-> auxiliary_carry,
     zero |-> zero, sign |-> sign, overflow |-> overflow,
     interrupt_enable |-> interrupt_enable, direction |-> direction,
     trap |-> trap]

\* #[derive(Default)] on Flags: every bool false.
Flags_default ==
    Flags_new(FALSE, FALSE, FALSE, FALSE, FALSE, FALSE, FALSE, FALSE, FALSE)

\* Register::new(), and #[derive(Default)] on Register: 0x0000.
Register_new == 0

\* `v as u8`: the low eight bits.
AsU8(v) == v % TwoPow8

----------------------------------------------------------------------------
(* BusInterfaceUnit: construction and the methods, as actions.             *)

\* BusInterfaceUnit::new: each field from the argument of the same name.
BusInterfaceUnit_new(a_es, a_cs, a_ss, a_ds, a_ip, a_instruction_queue) ==
    [es |-> a_es, cs |-> a_cs, ss |-> a_ss, ds |-> a_ds, ip |-> a_ip,
     instruction_queue |-> a_instruction_queue]

\* The bus a BusInterfaceUnit is handed: a new one, or one already used
\* (0xFFFFF latched, 0xAB written there).
UsedBus ==
    [address |-> 1048575, memory |-> Memory_write(Memory_new, 1048575, 171)]
BusesHanded == {AddressBus_new, UsedBus}

\* The writes a bus has seen.
WrittenOn(b) ==
    [a \in {t \in DOMAIN b.memory.byte : b.memory.byte[t] # 0} |-> b.memory.byte[a]]

\* Function f with a mapped to v, a added to its domain if new.
Put(f, a, v) == [t \in (DOMAIN f) \cup {a} |-> IF t = a THEN v ELSE f[t]]

\* The objects a specification does not exercise stay as constructed.
RegisterIdle == x = Register_new /\ low_written = 0 /\ high_written = 0
FlagsIdle    == flags = Flags_default
BusIdle      == /\ address = AddressBus_new.address
                /\ data = AddressBus_new.memory
                /\ kind = "AddressBus"
                /\ panicked = FALSE
                /\ written = <<>> /\ latched = 0
BiuIdle      == /\ es = 0 /\ cs = 0 /\ ss = 0 /\ ds = 0 /\ ip = 0
                /\ instruction_queue = <<>>
                /\ supplied = <<>> /\ pushed = <<>> /\ popped = <<>>

\* The state after BusInterfaceUnit::new(a_es, ..., q, b).
BiuConstructed(a_es, a_cs, a_ss, a_ds, a_ip, q, b) ==
    LET new == BusInterfaceUnit_new(a_es, a_cs, a_ss, a_ds, a_ip, q)
    IN  /\ es = new.es /\ cs = new.cs /\ ss = new.ss /\ ds = new.ds
        /\ ip = new.ip
        /\ instruction_queue = new.instruction_queue
        /\ address = b.address /\ data = b.memory
        /\ kind = "AddressBus" /\ panicked = FALSE
        /\ written = WrittenOn(b) /\ latched = b.address
        /\ op = "new" /\ args = <<a_es, a_cs, a_ss, a_ds, a_ip, q>>
        /\ ret = Unit
        /\ supplied = q /\ pushed = <<>> /\ popped = <<>>

\* A call that changes nothing but is recorded with its result.
Returns(name, arguments, result) ==
    /\ op' = name /\ args' = arguments /\ ret' = result
    /\ UNCHANGED <<biu, bus, reg, flags, hist>>

set_extra_segment_address(value) ==
    /\ es' = value
    /\ op' = "set_extra_segment_address" /\ args' = <<value>> /\ ret' = Unit
    /\ UNCHANGED <<cs, ss, ds, ip, instruction_queue, bus, reg, flags, hist>>

\* A code-segment setter that writes the stack segment.
set_code_segment_address_ss(value) ==
    /\ ss' = value
    /\ op' = "set_code_segment_address" /\ args' = <<value>> /\ ret' = Unit
    /\ UNCHANGED <<es, cs, ds, ip, instruction_queue, bus, reg, flags, hist>>

set_code_segment_address(value) ==
    /\ cs' = value
    /\ op' = "set_code_segment_address" /\ args' = <<value>> /\ ret' = Unit
    /\ UNCHANGED <<es, ss, ds, ip, instruction_queue, bus, reg, flags, hist>>

set_stack_segment_address(value) ==
    /\ ss' = value
    /\ op' = "set_stack_segment_address" /\ args' = <<value>> /\ ret' = Unit
    /\ UNCHANGED <<es, cs, ds, ip, instruction_queue, bus, reg, flags, hist>>

set_data_segment_address(value) ==
    /\ ds' = value
    /\ op' = "set_data_segment_address" /\ args' = <<value>> /\ ret' = Unit
    /\ UNCHANGED <<es, cs, ss, ip, instruction_queue, bus, reg, flags, hist>>

set_instruction_pointer(value) ==
    /\ ip' = value
    /\ op' = "set_instruction_pointer" /\ args' = <<value>> /\ ret' = Unit
    /\ UNCHANGED <<es, cs, ss, ds, instruction_queue, bus, reg, flags, hist>>

Call_get_extra_segment_address ==
    Returns("get_extra_segment_address", <<>>, get_extra_segment_address)
Call_get_code_segment_address ==
    Returns("get_code_segment_address", <<>>, get_code_segment_address)
Call_get_stack_segment_address ==
    Returns("get_stack_segment_address", <<>>, get_stack_segment_address)
Call_get_data_segment_address ==
    Returns("get_data_segment_address", <<>>, get_data_segment_address)
Call_get_instruction_pointer ==
    Returns("get_instruction_pointer", <<>>, get_instruction_pointer)

\* A fetch-address computation that also drives the address onto the bus.
Call_get_fetch_address_latching ==
    /\ op' = "get_fetch_address" /\ args' = <<>> /\ ret' = get_fetch_address
    /\ address' = get_fetch_address /\ latched' = get_fetch_address
    /\ UNCHANGED <<biu, data, kind, panicked, written, reg, flags, hist>>

Call_get_fetch_address ==
    Returns("get_fetch_address", <<>>, get_fetch_address)
Call_get_stack_address(sp_offset) ==
    Returns("get_stack_address", <<sp_offset>>, get_stack_address(sp_offset))
Call_get_string_source_address(si_offset, alt_base) ==
    Returns("get_string_source_address", <<si_offset, alt_base>>,
            get_string_source_address(si_offset, alt_base))
Call_get_string_destination_address(di_offset) ==
    Returns("get_string_destination_address", <<di_offset>>,
            get_string_destination_address(di_offset))
Call_get_data_address(eu_offset, alt_base) ==
    Returns("get_data_address", <<eu_offset, alt_base>>,
            get_data_address(eu_offset, alt_base))
Call_get_bp_address(eu_bp_offset, alt_base) ==
    Returns("get_bp_address", <<eu_bp_offset, alt_base>>,
            get_bp_address(eu_bp_offset, alt_base))

\* push_instruction: Vec::push appends at the end.
push_instruction(instruction) ==
    /\ instruction_queue' = Append(instruction_queue, instruction)
    /\ pushed' = Append(pushed, instruction)
    /\ op' = "push_instruction" /\ args' = <<instruction>> /\ ret' = Unit
    /\ UNCHANGED <<es, cs, ss, ds, ip, bus, reg, flags, supplied, popped>>

\* A pop that takes the front byte with Vec::remove(0), which panics on an
\* empty Vec.
pop_instruction_remove0 ==
    /\ IF instruction_queue = <<>>
       THEN /\ ret' = Panic /\ panicked' = TRUE
            /\ UNCHANGED <<instruction_queue, popped>>
       ELSE /\ ret' = Some(Head(instruction_queue))
            /\ instruction_queue' = Tail(instruction_queue)
            /\ popped' = Append(popped, Head(instruction_queue))
            /\ UNCHANGED panicked
    /\ op' = "pop_instruction" /\ args' = <<>>
    /\ UNCHANGED <<es, cs, ss, ds, ip, address, data, kind, written, latched, reg, flags,
                   supplied, pushed>>

\* pop_instruction: Vec::pop removes and returns the last element, or
\* returns None when the Vec is empty.
pop_instruction ==
    /\ IF instruction_queue = <<>>
       THEN /\ ret' = None
            /\ UNCHANGED <<instruction_queue, popped>>
       ELSE LET n == Len(instruction_queue)
            IN  /\ ret' = Some(instruction_queue[n])
                /\ instruction_queue' = SubSeq(instruction_queue, 1, n - 1)
                /\ popped' = Append(popped, instruction_queue[n])
    /\ op' = "pop_instruction" /\ args' = <<>>
    /\ UNCHANGED <<es, cs, ss, ds, ip, bus, reg, flags, supplied, pushed>>

----------------------------------------------------------------------------
(* AddressBus and Memory: the methods, as actions.  A panic ends the       *)
(* program: no method runs after it.                                       *)

\* AddressBus::set_address.
AddressBus_set_address(a) ==
    /\ kind = "AddressBus" /\ ~panicked
    /\ address' = a
    /\ latched' = a
    /\ op' = "set_address" /\ args' = <<a>> /\ ret' = Unit
    /\ UNCHANGED <<biu, data, kind, panicked, written, reg, flags, hist>>

\* Memory::read(address) on the Vec: the byte, or the indexing panics.
ReadAt(name, arguments, a) ==
    /\ IF InBounds(data, a)
       THEN ret' = Memory_read(data, a) /\ panicked' = FALSE
       ELSE ret' = Panic /\ panicked' = TRUE
    /\ op' = name /\ args' = arguments
    /\ UNCHANGED <<biu, address, data, kind, written, latched, reg, flags, hist>>

\* Memory::write(address, value) on the Vec: the byte is stored, or the
\* indexing panics.
WriteAt(name, arguments, a, value) ==
    /\ IF InBounds(data, a)
       THEN /\ data' = Memory_write(data, a, value)
            /\ written' = Put(written, a, value)
            /\ ret' = Unit /\ panicked' = FALSE
       ELSE /\ ret' = Panic /\ panicked' = TRUE
            /\ UNCHANGED <<data, written>>
    /\ op' = name /\ args' = arguments
    /\ UNCHANGED <<biu, address, kind, latched, reg, flags, hist>>

\* A read that ignores the latch and reads address 0.
AddressBus_read_at_zero ==
    /\ kind = "AddressBus" /\ ~panicked
    /\ ReadAt("read", <<>>, 0)

\* AddressBus::read: self.memory.read(self.address).
AddressBus_read ==
    /\ kind = "AddressBus" /\ ~panicked
    /\ ReadAt("read", <<>>, address)

\* AddressBus::write: self.memory.write(self.address, value).
AddressBus_write(value) ==
    /\ kind = "AddressBus" /\ ~panicked
    /\ WriteAt("write", <<value>>, address, value)

\* Memory::read called on a Memory that no bus owns.
Call_Memory_read(a) ==
    /\ kind = "Memory" /\ ~panicked
    /\ ReadAt("Memory::read", <<a>>, a)

\* Memory::write called on a Memory that no bus owns.
Call_Memory_write(a, value) ==
    /\ kind = "Memory" /\ ~panicked
    /\ WriteAt("Memory::write", <<a, value>>, a, value)

----------------------------------------------------------------------------
(* Spec: a BusInterfaceUnit, its registers and its address computations.   *)

Init ==
    /\ \E a_es \in Segments, a_cs \in Segments, a_ss \in Segments,
          a_ds \in Segments, a_ip \in Offsets, q \in {<<>>, <<17, 34>>},
          b \in BusesHanded :
            BiuConstructed(a_es, a_cs, a_ss, a_ds, a_ip, q, b)
    /\ RegisterIdle /\ FlagsIdle

Next ==
    \/ \E value \in Segments : set_extra_segment_address(value)
    \/ \E value \in Segments : set_code_segment_address(value)
    \/ \E value \in Segments : set_stack_segment_address(value)
    \/ \E value \in Segments : set_data_segment_address(value)
    \/ \E value \in Offsets : set_instruction_pointer(value)
    \/ Call_get_extra_segment_address
    \/ Call_get_code_segment_address
    \/ Call_get_stack_segment_address
    \/ Call_get_data_segment_address
    \/ Call_get_instruction_pointer
    \/ Call_get_fetch_address
    \/ \E o \in Offsets : Call_get_stack_address(o)
    \/ \E o \in Offsets, alt \in Overrides : Call_get_string_source_address(o, alt)
    \/ \E o \in Offsets : Call_get_string_destination_address(o)
    \/ \E o \in Offsets, alt \in Overrides : Call_get_data_address(o, alt)
    \/ \E o \in Offsets, alt \in Overrides : Call_get_bp_address(o, alt)

Spec == Init /\ [][Next]_vars

----------------------------------------------------------------------------
(* Claims about the registers and the address computations, under Spec.    *)

OverrideOps == {"get_string_source_address", "get_data_address", "get_bp_address"}
AddressOps  == OverrideOps \cup {"get_fetch_address", "get_stack_address",
                                 "get_string_destination_address"}

\* The segment register an address computation uses when none is supplied.
DefaultSegment(name) ==
    CASE name = "get_fetch_address" -> cs
      [] name = "get_stack_address" -> ss
      [] name = "get_string_source_address" -> ds
      [] name = "get_string_destination_address" -> es
      [] name = "get_data_address" -> ds
      [] name = "get_bp_address" -> ss

\* C1: each of the six address computations returns (segment * 16) + offset,
\* not masked and not wrapped, with segment cs (and offset ip) for a fetch,
\* ss for the stack, es for a string destination and, when no override is
\* supplied, ds for a string source and for data and ss for bp; the result
\* lies in 0..0x10FFEF.
C1_PhysicalAddress ==
    /\ op = "get_fetch_address" => ret = (cs * 16) + ip
    /\ op = "get_stack_address" => ret = (ss * 16) + args[1]
    /\ op = "get_string_destination_address" => ret = (es * 16) + args[1]
    /\ (op = "get_string_source_address" /\ args[2] = None)
          => ret = (ds * 16) + args[1]
    /\ (op = "get_data_address" /\ args[2] = None) => ret = (ds * 16) + args[1]
    /\ (op = "get_bp_address" /\ args[2] = None) => ret = (ss * 16) + args[1]
    /\ op \in AddressOps => ret \in 0..1114095

\* A fetch address past the 1 MiB space: 0xFFFF:0xFFFF is 0x10FFEF, while the
\* other registers hold something else.
C1_Witness ==
    /\ op = "get_fetch_address"
    /\ cs = 65535 /\ ip = 65535 /\ ret = 1114095 /\ ret >= MEMORY_SIZE
    /\ es = 4101 /\ ss = 0 /\ ds = 4101

\* C2: with an override S supplied, a string-source, data or bp address is
\* (S * 16) + offset whatever ds and ss are; the call leaves the segment
\* registers and the instruction pointer as they were, and the next call
\* without an override uses the default segment again.
C2_Override ==
    [][/\ op' \in OverrideOps =>
            /\ <<es, cs, ss, ds, ip>>' = <<es, cs, ss, ds, ip>>
            /\ args'[2] # None => ret' = (args'[2][2] * 16) + args'[1]
       /\ (op \in OverrideOps /\ op' \in OverrideOps)
            => (args[2] # None /\ args'[2] = None
                  => ret' = (DefaultSegment(op') * 16) + args'[1])]_vars

\* A data address computed with override 0x1000 while ds is 0xFFFF.
C2_Witness ==
    /\ op = "get_data_address" /\ args = <<21845, Some(4096)>>
    /\ ds = 65535 /\ ss = 4101
    /\ ret = 87381

\* C10: each setter of es, cs, ss, ds, ip stores any 16-bit value as it is,
\* leaves the other four registers and the queue alone, and the matching
\* getter then returns that value; after new(es, cs, ss, ds, ip, ...) each
\* getter returns the argument of its name.
C10_Accessors ==
    [][/\ op' = "set_extra_segment_address" =>
            /\ es' = args'[1]
            /\ UNCHANGED <<cs, ss, ds, ip, instruction_queue>>
       /\ op' = "set_code_segment_address" =>
            /\ cs' = args'[1]
            /\ UNCHANGED <<es, ss, ds, ip, instruction_queue>>
       /\ op' = "set_stack_segment_address" =>
            /\ ss' = args'[1]
            /\ UNCHANGED <<es, cs, ds, ip, instruction_queue>>
       /\ op' = "set_data_segment_address" =>
            /\ ds' = args'[1]
            /\ UNCHANGED <<es, cs, ss, ip, instruction_queue>>
       /\ op' = "set_instruction_pointer" =>
            /\ ip' = args'[1]
            /\ UNCHANGED <<es, cs, ss, ds, instruction_queue>>
       /\ op' = "get_extra_segment_address" =>
            /\ op = "set_extra_segment_address" => ret' = args[1]
            /\ op = "new" => ret' = args[1]
       /\ op' = "get_code_segment_address" =>
            /\ op = "set_code_segment_address" => ret' = args[1]
            /\ op = "new" => ret' = args[2]
       /\ op' = "get_stack_segment_address" =>
            /\ op = "set_stack_segment_address" => ret' = args[1]
            /\ op = "new" => ret' = args[3]
       /\ op' = "get_data_segment_address" =>
            /\ op = "set_data_segment_address" => ret' = args[1]
            /\ op = "new" => ret' = args[4]
       /\ op' = "get_instruction_pointer" =>
            /\ op = "set_instruction_pointer" => ret' = args[1]
            /\ op = "new" => ret' = args[5]]_vars

\* The code segment set to 0xFFFF while the other registers hold other
\* values and bytes are queued.
C10_Witness ==
    /\ op = "set_code_segment_address" /\ args = <<65535>> /\ cs = 65535
    /\ es = 0 /\ ss = 4101 /\ ds = 0 /\ ip = 21845
    /\ instruction_queue = <<17, 34>>

\* C12: each of the six address computations, with any arguments in any
\* state of the BusInterfaceUnit, leaves the segment registers, the
\* instruction pointer, the queue, the latched address and every memory byte
\* as they were (it neither latches nor transfers, and cannot panic), and
\* called again with the same arguments it returns the same address.
C12_Pure ==
    [][op' \in AddressOps =>
          /\ UNCHANGED <<es, cs, ss, ds, ip, instruction_queue>>
          /\ UNCHANGED <<address, data, panicked>>
          /\ (op = op' /\ args = args') => ret' = ret]_vars

\* A bp address computed with an override, past the 1 MiB space, on a unit
\* whose queue holds bytes and whose bus has 0xFFFFF latched and 0xAB there.
C12_Witness ==
    /\ op = "get_bp_address" /\ args = <<65535, Some(65535)>> /\ ret = 1114095
    /\ ss = 0 /\ instruction_queue = <<17, 34>>
    /\ address = 1048575 /\ data.byte[1048575] = 171

----------------------------------------------------------------------------
(* SpecQueue: a BusInterfaceUnit and its prefetch queue.                   *)

\* The most bytes push_instruction is given in one run.
MaxPushed == 3

\* The queues the constructor is given.
QueuesSupplied == {<<>>, <<17>>, <<34, 17>>}

InitQueue ==
    /\ \E r \in {<<0, 0, 0, 0, 0>>, <<0, 4101, 65535, 4101, 21845>>},
          q \in QueuesSupplied, b \in BusesHanded :
            BiuConstructed(r[1], r[2], r[3], r[4], r[5], q, b)
    /\ RegisterIdle /\ FlagsIdle

NextQueue ==
    \/ \E instruction \in Bytes :
          Len(pushed) < MaxPushed /\ push_instruction(instruction)
    \/ pop_instruction

SpecQueue == InitQueue /\ [][NextQueue]_vars

\* Every byte enqueued so far, oldest first: the constructor's queue from
\* index 0, then the pushed bytes.
Enqueued == supplied \o pushed

\* C3: the queue is first in, first out: in a run whose queue started empty,
\* the bytes the pops have returned are, in order, the first bytes pushed, so
\* each pop returned the oldest byte not yet popped (0x11, 0x22, 0x33 pushed
\* and popped three times gives 0x11, 0x22, 0x33).
C3_Fifo ==
    supplied = <<>> =>
        /\ Len(popped) <= Len(pushed)
        /\ popped = SubSeq(pushed, 1, Len(popped))

\* C7: pop_instruction returns None exactly when every byte enqueued (by the
\* constructor or by a push) has been popped; that pop is no fault and
\* changes neither the queue, the segment registers, the instruction pointer
\* nor the bus; a push after it queues exactly the pushed byte, and the pop
\* after that push returns it.
C7_EmptyPop ==
    [][/\ op' = "pop_instruction" =>
            /\ (ret' = None) <=> (Len(popped) = Len(Enqueued))
            /\ ret' # Panic /\ ~panicked'
            /\ ret' = None =>
                  UNCHANGED <<instruction_queue, es, cs, ss, ds, ip,
                              address, data>>
       /\ (op = "pop_instruction" /\ op' = "push_instruction") =>
            (ret = None => instruction_queue' = <<args'[1]>>)
       /\ (op = "push_instruction" /\ op' = "pop_instruction"
             /\ instruction_queue = <<args[1]>>) =>
            (ret' = Some(args[1]) /\ instruction_queue' = <<>>)]_vars

\* A pop that found the queue empty after the constructor's byte and a pushed
\* byte were both popped.
C7_Witness ==
    /\ op = "pop_instruction" /\ ret = None
    /\ Len(supplied) = 1 /\ Len(pushed) = 1 /\ Len(popped) = 2
    /\ instruction_queue = <<>>

----------------------------------------------------------------------------
(* SpecBus: an AddressBus with its Memory, or a Memory on its own, built   *)
(* by new() or by the derived Default.                                     *)

InitBus ==
    /\ \/ /\ kind = "AddressBus"
          /\ \E c \in {<<"new", AddressBus_new>>, <<"default", AddressBus_default>>} :
                op = c[1] /\ address = c[2].address /\ data = c[2].memory
       \/ /\ kind = "Memory"
          /\ \E c \in {<<"new", Memory_new>>, <<"default", Memory_default>>} :
                op = c[1] /\ data = c[2]
          /\ address = 0
    /\ args = <<>> /\ ret = Unit
    /\ panicked = FALSE /\ written = <<>> /\ latched = 0
    /\ BiuIdle /\ RegisterIdle /\ FlagsIdle

NextBus ==
    \/ \E a \in Addresses : AddressBus_set_address(a)
    \/ AddressBus_read
    \/ \E value \in Values : AddressBus_write(value)
    \/ \E a \in Addresses : Call_Memory_read(a)
    \/ \E a \in Addresses, value \in Values : Call_Memory_write(a, value)

SpecBus == InitBus /\ [][NextBus]_vars

\* The address a recorded transfer used: the latched one on a bus, the
\* argument on a Memory.
Target == IF op \in {"read", "write"} THEN address ELSE args[1]
Transfers == {"read", "write", "Memory::read", "Memory::write"}

\* C4: a write of v at an address A < 0x100000 stores v at A and changes no
\* other byte (a byte never written is as constructed, a byte written holds
\* the last value written to it), and a read at A then returns the last
\* value written to A, whatever was latched and written elsewhere in between.
C4_RoundTrip ==
    /\ (op \in {"write", "Memory::write"} /\ Target < 1048576) =>
            (~panicked /\ data.byte[Target] = args[Len(args)])
    /\ \A a \in DOMAIN data.byte :
            data.byte[a] = IF a \in DOMAIN written THEN written[a] ELSE 0
    /\ (op \in {"read", "Memory::read"} /\ Target \in DOMAIN written) =>
            (~panicked /\ ret = written[Target])

\* C5: a read or write at an address >= 0x100000, on a Memory or through the
\* bus, panics: it returns no byte, stores none, and leaves every byte of
\* memory as it was.
C5_OutOfRangeFatal ==
    [][/\ (op' \in {"read", "write"} /\ address' >= 1048576) =>
            (panicked' /\ ret' = Panic /\ data' = data)
       /\ (op' \in {"Memory::read", "Memory::write"} /\ args'[1] >= 1048576) =>
            (panicked' /\ ret' = Panic /\ data' = data)]_vars

\* A write through the bus with 0x100000 latched panicked, with 0xAB stored
\* at address 0 (0x100000 mod 0x100000) still there.
C5_Witness ==
    /\ op = "write" /\ args = <<255>> /\ address = 1048576 /\ panicked
    /\ data.len = MEMORY_SIZE /\ data.byte[0] = 171

\* C11: on an AddressBus the latched address is the argument of the last
\* set_address (0 while there was none); set_address transfers nothing (no
\* byte changes, no panic); a read returns the byte at the latched address
\* (or panics there) and changes neither memory nor the latch; a write
\* stores its value at the latched address (or panics there), changes no
\* other byte and not the latch.
C11_Latch ==
    /\ address = latched
    /\ [][kind = "AddressBus" =>
            /\ address' = latched'
            /\ op' = "set_address" =>
                  /\ address' = args'[1]
                  /\ data' = data /\ ~panicked' /\ ret' = Unit
            /\ op' = "read" =>
                  /\ address' = address /\ latched' = latched /\ data' = data
                  /\ IF latched < data.len
                     THEN ~panicked' /\ ret' = data.byte[latched]
                     ELSE panicked' /\ ret' = Panic
            /\ op' = "write" =>
                  /\ address' = address /\ latched' = latched
                  /\ \A a \in DOMAIN data.byte :
                        a # latched => data'.byte[a] = data.byte[a]
                  /\ IF latched < data.len
                     THEN ~panicked' /\ data'.byte[latched] = args'[1]
                     ELSE panicked' /\ data' = data]_vars

\* A read with 0x00001 latched returned the 0xAB written there, while address
\* 0 holds 0xFF: the latch outlived the write before the read.
C11_Witness ==
    /\ op = "read" /\ kind = "AddressBus" /\ ~panicked /\ ret = 171
    /\ address = 1 /\ latched = 1
    /\ data.byte[1] = 171 /\ data.byte[0] = 255

\* C6: however the Memory or the AddressBus was constructed, the memory
\* holds 0x100000 bytes at every moment, and every byte not yet written is 0.
C6_FullZeroedMemory ==
    /\ data.len = 1048576
    /\ \A a \in Addresses :
          (a < 1048576 /\ a \notin DOMAIN written) =>
              (a \in DOMAIN data.byte /\ data.byte[a] = 0)

----------------------------------------------------------------------------
(* Register (src/src/cpu/registers.rs).                                    *)

\* low(): (self.x & 0x00FF) as u8.
low == AsU8(BitAnd(x, 255, 16))

\* high(): ((self.x & 0xFF00) >> 8) as u8.
high == AsU8(Shr16(BitAnd(x, 65280, 16), 8))

Call_low  == Returns("low", <<>>, low)
Call_high == Returns("high", <<>>, high)

\* A set_low that stores the byte without keeping the high byte.
set_low_unmasked(value) ==
    /\ x' = value
    /\ low_written' = value
    /\ op' = "set_low" /\ args' = <<value>> /\ ret' = Unit
    /\ UNCHANGED <<biu, bus, high_written, flags, hist>>

\* set_low: self.x = (self.x & 0xFF00) | (value as u16).
set_low(value) ==
    /\ x' = BitOr(BitAnd(x, 65280, 16), value, 16)
    /\ low_written' = value
    /\ op' = "set_low" /\ args' = <<value>> /\ ret' = Unit
    /\ UNCHANGED <<biu, bus, high_written, flags, hist>>

\* set_high: self.x = (self.x & 0x00FF) | ((value as u16) << 8).
set_high(value) ==
    /\ x' = BitOr(BitAnd(x, 255, 16), Shl16(value, 8), 16)
    /\ high_written' = value
    /\ op' = "set_high" /\ args' = <<value>> /\ ret' = Unit
    /\ UNCHANGED <<biu, bus, low_written, flags, hist>>

\* set: self.x = value.
set(value) ==
    /\ x' = value
    /\ low_written' = value % 256
    /\ high_written' = (value \div 256) % 256
    /\ op' = "set" /\ args' = <<value>> /\ ret' = Unit
    /\ UNCHANGED <<biu, bus, flags, hist>>

\* 16-bit values: 0x0000, 0x00FF, 0x1234, 0x9ABC, 0xFF00, 0xFFFF;
\* bytes: 0x00, 0x01, 0x56, 0x78, 0x80, 0xFF.
Words     == {0, 255, 4660, 39612, 65280, 65535}
HalfBytes == {0, 1, 86, 120, 128, 255}

InitRegister ==
    /\ x = Register_new /\ low_written = 0 /\ high_written = 0
    /\ op = "new" /\ args = <<>> /\ ret = Unit
    /\ BiuIdle /\ BusIdle /\ FlagsIdle

NextRegister ==
    \/ Call_low
    \/ Call_high
    \/ \E value \in HalfBytes : set_low(value)
    \/ \E value \in HalfBytes : set_high(value)
    \/ \E value \in Words : set(value)

SpecRegister == InitRegister /\ [][NextRegister]_vars

\* C8: after any sequence of set, set_low and set_high, low() is the low byte
\* most recently written (v & 0xFF by set(v), b by set_low(b)) and high() is
\* the high byte most recently written ((v >> 8) & 0xFF by set(v), b by
\* set_high(b)): each of set_low and set_high leaves the other byte alone,
\* and low() and high() return these bytes and change nothing.
C8_ByteViews ==
    /\ low = low_written /\ high = high_written
    /\ x = (high_written * 256) + low_written
    /\ op = "low" => ret = low_written
    /\ op = "high" => ret = high_written

\* set_low(0x56) on a register whose high byte 0x12 came from set(0x1234).
C8_Witness ==
    /\ op = "set_low" /\ args = <<86>>
    /\ x = 4694 /\ high_written = 18

----------------------------------------------------------------------------
(* Flags (src/src/cpu/flags.rs).                                           *)
set_carry(value) ==
    /\ flags' = [flags EXCEPT !.carry = value]
    /\ op' = "set_carry" /\ args' = <<value>> /\ ret' = Unit
    /\ UNCHANGED <<biu, bus, reg, hist>>

set_parity(value) ==
    /\ flags' = [flags EXCEPT !.parity = value]
    /\ op' = "set_parity" /\ args' = <<value>> /\ ret' = Unit
    /\ UNCHANGED <<biu, bus, reg, hist>>

\* A set_auxiliary_carry that writes the carry flag.
set_auxiliary_carry_as_carry(value) ==
    /\ flags' = [flags EXCEPT !.carry = value]
    /\ op' = "set_auxiliary_carry" /\ args' = <<value>> /\ ret' = Unit
    /\ UNCHANGED <<biu, bus, reg, hist>>

set_auxiliary_carry(value) ==
    /\ flags' = [flags EXCEPT !.auxiliary_carry = value]
    /\ op' = "set_auxiliary_carry" /\ args' = <<value>> /\ ret' = Unit
    /\ UNCHANGED <<biu, bus, reg, hist>>

set_zero(value) ==
    /\ flags' = [flags EXCEPT !.zero = value]
    /\ op' = "set_zero" /\ args' = <<value>> /\ ret' = Unit
    /\ UNCHANGED <<biu, bus, reg, hist>>

set_sign(value) ==
    /\ flags' = [flags EXCEPT !.sign = value]
    /\ op' = "set_sign" /\ args' = <<value>> /\ ret' = Unit
    /\ UNCHANGED <<biu, bus, reg, hist>>

set_overflow(value) ==
    /\ flags' = [flags EXCEPT !.overflow = value]
    /\ op' = "set_overflow" /\ args' = <<value>> /\ ret' = Unit
    /\ UNCHANGED <<biu, bus, reg, hist>>

set_interrupt_enable(value) ==
    /\ flags' = [flags EXCEPT !.interrupt_enable = value]
    /\ op' = "set_interrupt_enable" /\ args' = <<value>> /\ ret' = Unit
    /\ UNCHANGED <<biu, bus, reg, hist>>

set_direction(value) ==
    /\ flags' = [flags EXCEPT !.direction = value]
    /\ op' = "set_direction" /\ args' = <<value>> /\ ret' = Unit
    /\ UNCHANGED <<biu, bus, reg, hist>>

set_trap(value) ==
    /\ flags' = [flags EXCEPT !.trap = value]
    /\ op' = "set_trap" /\ args' = <<value>> /\ ret' = Unit
    /\ UNCHANGED <<biu, bus, reg, hist>>

get_carry == flags.carry
Call_get_carry == Returns("get_carry", <<>>, get_carry)

get_parity == flags.parity
Call_get_parity == Returns("get_parity", <<>>, get_parity)

get_auxiliary_carry == flags.auxiliary_carry
Call_get_auxiliary_carry == Returns("get_auxiliary_carry", <<>>, get_auxiliary_carry)

get_zero == flags.zero
Call_get_zero == Returns("get_zero", <<>>, get_zero)

get_sign == flags.sign
Call_get_sign == Returns("get_sign", <<>>, get_sign)

get_overflow == flags.overflow
Call_get_overflow == Returns("get_overflow", <<>>, get_overflow)

get_interrupt_enable == flags.interrupt_enable
Call_get_interrupt_enable == Returns("get_interrupt_enable", <<>>, get_interrupt_enable)

get_direction == flags.direction
Call_get_direction == Returns("get_direction", <<>>, get_direction)

get_trap == flags.trap
Call_get_trap == Returns("get_trap", <<>>, get_trap)

\* The flags, in the order of Flags::new's parameters, with the setter and
\* the getter of each.
FlagNames ==
    <<"carry", "parity", "auxiliary_carry", "zero", "sign", "overflow",
      "interrupt_enable", "direction", "trap">>
SetterOf ==
    [carry |-> "set_carry", parity |-> "set_parity",
     auxiliary_carry |-> "set_auxiliary_carry", zero |-> "set_zero",
     sign |-> "set_sign", overflow |-> "set_overflow",
     interrupt_enable |-> "set_interrupt_enable",
     direction |-> "set_direction", trap |-> "set_trap"]
GetterOf ==
    [carry |-> "get_carry", parity |-> "get_parity",
     auxiliary_carry |-> "get_auxiliary_carry", zero |-> "get_zero",
     sign |-> "get_sign", overflow |-> "get_overflow",
     interrupt_enable |-> "get_interrupt_enable",
     direction |-> "get_direction", trap |-> "get_trap"]

InitFlags ==
    /\ \E a \in [1..9 -> BOOLEAN] :
          /\ flags = Flags_new(a[1], a[2], a[3], a[4], a[5], a[6], a[7], a[8], a[9])
          /\ op = "new" /\ args = a
    /\ ret = Unit
    /\ BiuIdle /\ BusIdle /\ RegisterIdle

NextFlags ==
    \/ \E value \in BOOLEAN : set_carry(value)
    \/ \E value \in BOOLEAN : set_parity(value)
    \/ \E value \in BOOLEAN : set_auxiliary_carry(value)
    \/ \E value \in BOOLEAN : set_zero(value)
    \/ \E value \in BOOLEAN : set_sign(value)
    \/ \E value \in BOOLEAN : set_overflow(value)
    \/ \E value \in BOOLEAN : set_interrupt_enable(value)
    \/ \E value \in BOOLEAN : set_direction(value)
    \/ \E value \in BOOLEAN : set_trap(value)
    \/ Call_get_carry
    \/ Call_get_parity
    \/ Call_get_auxiliary_carry
    \/ Call_get_zero
    \/ Call_get_sign
    \/ Call_get_overflow
    \/ Call_get_interrupt_enable
    \/ Call_get_direction
    \/ Call_get_trap

SpecFlags == InitFlags /\ [][NextFlags]_vars

\* C9: for each of the nine flags, its setter called with x makes the flag x
\* and leaves the other eight as they were, and its getter then returns x;
\* a getter returns its flag and changes nothing; after new(...) each getter
\* returns the constructor argument of its name.
C9_FlagIndependence ==
    [][\A i \in 1..9 :
         LET f == FlagNames[i]
         IN  /\ op' = SetterOf[f] =>
                  /\ flags'[f] = args'[1]
                  /\ \A j \in 1..9 : j # i => flags'[FlagNames[j]] = flags[FlagNames[j]]
             /\ op' = GetterOf[f] =>
                  /\ ret' = flags[f] /\ flags' = flags
                  /\ op = SetterOf[f] => ret' = args[1]
                  /\ op = "new" => ret' = args[i]]_vars

\* set_auxiliary_carry(TRUE) while carry and the flags after it are FALSE and
\* parity is TRUE.
C9_Witness ==
    /\ op = "set_auxiliary_carry" /\ args = <<TRUE>>
    /\ flags.auxiliary_carry /\ flags.parity
    /\ ~flags.carry /\ ~flags.zero /\ ~flags.trap

====
